---- MODULE Spec2Model ----
\* State-machine model of EbayCrawler (src/ebay_cralwer.py): the crawl loop,
\* process_page with its fan-out of write_json_file tasks, parse_item and
\* extract_item_id.  Text is modelled as sequences of one-character strings.
EXTENDS Integers, Sequences, FiniteSets, TLC

\* ---------------------------------------------------------------- bounds
\* Cap on the number of loop iterations of crawl() (page_count is unbounded
\* in the code; a cyclic pagination chain never ends).
MaxPages == 4

\* ---------------------------------------------------------------- options
\* Python's None / a present value.
None == [some |-> FALSE, v |-> <<>>]
Some(x) == [some |-> TRUE, v |-> x]

\* Python truthiness of an optional string: None and "" are both falsy.
Truthy(o) == o.some /\ o.v # <<>>

\* ---------------------------------------------------------------- text
Digits == {"0", "1", "2", "3", "4", "5", "6", "7", "8", "9"}

\* str.lower() on the characters the inputs use.
LowerChar(c) ==
    CASE c = "N" -> "n"
      [] c = "E" -> "e"
      [] c = "W" -> "w"
      [] c = "U" -> "u"
      [] c = "S" -> "s"
      [] c = "D" -> "d"
      [] c = "K" -> "k"
      [] c = "O" -> "o"
      [] OTHER -> c

Lower(s) == [i \in 1..Len(s) |-> LowerChar(s[i])]

\* str.strip(): drop leading and trailing blanks.
RECURSIVE LStrip(_)
LStrip(s) == IF s # <<>> /\ Head(s) = " " THEN LStrip(Tail(s)) ELSE s

RECURSIVE RStrip(_)
RStrip(s) ==
    IF s # <<>> /\ s[Len(s)] = " " THEN RStrip(SubSeq(s, 1, Len(s) - 1)) ELSE s

Strip(s) == RStrip(LStrip(s))

\* s.split(' to ')[0]: the text before the first " to " separator.
SepTo == <<" ", "t", "o", " ">>

IsSepAt(s, i) == i + 3 <= Len(s) /\ SubSeq(s, i, i + 3) = SepTo

\* Variant of SplitToFirst: a price range is not cut at its separator.
SplitToFirst_NoSplit(s) == s

SplitToFirst(s) ==
    IF \E i \in 1..Len(s) : IsSepAt(s, i)
    THEN LET i == CHOOSE k \in 1..Len(s) :
                      IsSepAt(s, k) /\ \A j \in 1..(k - 1) : ~IsSepAt(s, j)
         IN SubSeq(s, 1, i - 1)
    ELSE s

\* re.sub(r'[^\d.]', '', s): keep digits and dots only.
RECURSIVE KeepDigitsDots(_)
KeepDigitsDots(s) ==
    IF s = <<>> THEN <<>>
    ELSE IF Head(s) \in Digits \cup {"."}
         THEN <<Head(s)>> \o KeepDigitsDots(Tail(s))
         ELSE KeepDigitsDots(Tail(s))

\* ---------------------------------------------------------------- extract_item_id
Marker == <<"/", "i", "t", "m", "/">>

\* re.search(r'/itm/(\d+)', url) can match with the marker starting at i.
MatchAt(url, i) ==
    /\ i + 5 <= Len(url)
    /\ SubSeq(url, i, i + 4) = Marker
    /\ url[i + 5] \in Digits

\* The greedy \d+ group: the maximal run of digits starting at position p.
RECURSIVE DigitRun(_, _)
DigitRun(url, p) ==
    IF p <= Len(url) /\ url[p] \in Digits
    THEN <<url[p]>> \o DigitRun(url, p + 1)
    ELSE <<>>

extract_item_id(url) ==
    IF \E i \in 1..Len(url) : MatchAt(url, i)
    THEN LET i == CHOOSE k \in 1..Len(url) :
                      MatchAt(url, k) /\ \A j \in 1..(k - 1) : ~MatchAt(url, j)
         IN Some(DigitRun(url, i + 5))
    ELSE None

\* ---------------------------------------------------------------- parse_item
\* A listing node (one <li class="s-item">): each element is present or not;
\* link is the href of the s-item__link anchor (possibly the empty string).
Node(title, price, link, cond) ==
    [title |-> title, price |-> price, link |-> link, cond |-> cond]

TitleOf(item) ==
    IF item.title.some THEN Strip(item.title.v) ELSE <<"N", "o", " ", "t", "i", "t", "l", "e">>

PriceOf(item) ==
    LET raw == IF item.price.some THEN Strip(item.price.v) ELSE <<"0", ".", "0", "0">>
    IN KeepDigitsDots(SplitToFirst(raw))

ConditionOf(item) ==
    IF item.cond.some THEN Strip(item.cond.v) ELSE <<"U", "n", "k", "n", "o", "w", "n">>

\* Variant of FilteredOut: the comparison without .lower().
FilteredOut_CaseSensitive(item, condition_filter) ==
    Truthy(condition_filter) /\ ConditionOf(item) # condition_filter.v

\* "if condition_filter and condition.lower() != condition_filter.lower()"
FilteredOut(item, condition_filter) ==
    Truthy(condition_filter) /\ Lower(ConditionOf(item)) # Lower(condition_filter.v)

\* Variant of parse_item: the condition filter is not applied.
parse_item_NoFilter(item, condition_filter) ==
    IF ~Truthy(item.link) THEN None
    ELSE IF ~Truthy(extract_item_id(item.link.v)) THEN None
    ELSE Some([title |-> TitleOf(item), condition |-> ConditionOf(item),
               price |-> PriceOf(item), product_url |-> item.link.v])

\* The dict parse_item returns (four keys; the item id is not one of them), or None.
parse_item(item, condition_filter) ==
    IF ~Truthy(item.link) THEN None
    ELSE IF FilteredOut(item, condition_filter) THEN None
    ELSE IF ~Truthy(extract_item_id(item.link.v)) THEN None
    ELSE Some([title |-> TitleOf(item), condition |-> ConditionOf(item),
               price |-> PriceOf(item), product_url |-> item.link.v])

\* Variant of parse_item_warnings: the diagnostic is logged below warning level.
parse_item_warnings_Never(item, condition_filter) == 0

\* Number of logger.warning calls parse_item makes for the node (line 98).
parse_item_warnings(item, condition_filter) ==
    IF /\ Truthy(item.link)
       /\ ~FilteredOut(item, condition_filter)
       /\ ~Truthy(extract_item_id(item.link.v))
    THEN 1 ELSE 0

\* json.dumps(data, indent=4): the keys in insertion order, each followed by
\* the characters of its value.
json_dumps(data) ==
    <<"title">> \o data.title \o <<"condition">> \o data.condition
        \o <<"price">> \o data.price \o <<"product_url">> \o data.product_url

\* os.path.join(self.data_dir, f"{item_id}.json"), relative to data_dir.
FileName(item_id) == item_id \o <<".", "j", "s", "o", "n">>

\* f.endswith('.json')
EndsWithJson(f) ==
    Len(f) >= 5 /\ SubSeq(f, Len(f) - 4, Len(f)) = <<".", "j", "s", "o", "n">>

\* ---------------------------------------------------------------- inputs
\* Product URLs.
UrlItm1 == <<"/", "i", "t", "m", "/", "1">>
UrlItm1b == <<"/", "i", "t", "m", "/", "1", "?", "b">>
UrlItm2 == <<"/", "i", "t", "m", "/", "2">>
UrlItm12 == <<"/", "i", "t", "m", "/", "1", "2", "x">>
UrlDeep3 == <<"/", "p", "/", "7", "/", "i", "t", "m", "/", "3">>
UrlNoMarker == <<"/", "p", "/", "7">>
UrlNoDigits == <<"/", "i", "t", "m", "/", "x">>

CondNew == <<"N", "e", "w">>
CondUsed == <<"U", "s", "e", "d">>

\* Listing nodes.
NodeNew1 == Node(Some(<<"a">>), Some(<<"$", "5">>), Some(UrlItm1), Some(CondNew))
NodeNew1b ==
    Node(Some(<<"a", "b">>), Some(<<"$", "1", " ", "t", "o", " ", "$", "9">>),
         Some(UrlItm1b), Some(<<" ", "n", "e", "w", " ">>))
NodeUsed2 == Node(None, None, Some(UrlItm2), Some(CondUsed))
NodeUnknown12 ==
    Node(Some(<<"c">>), Some(<<"1", ".", "2", ".", "3">>), Some(UrlItm12), None)
NodeDeep3 == Node(Some(<<"d">>), Some(<<"$", "1", ",", "0">>), Some(UrlDeep3), Some(<<"N", "E", "W">>))
NodeNoMarker == Node(Some(<<"e">>), Some(<<"7">>), Some(UrlNoMarker), Some(CondNew))
NodeNoDigits == Node(Some(<<"f">>), Some(<<"8">>), Some(UrlNoDigits), Some(CondUsed))
NodeNoLink == Node(Some(<<"g">>), Some(<<"9">>), None, Some(CondNew))
NodeEmptyHref == Node(Some(<<"h">>), Some(<<"9">>), Some(<<>>), Some(CondNew))

\* Page URLs.  base_url is the first page of the store.
base_url == "m.html"
Page2 == "m.html?_pgn=2"
Page3 == "m.html?_pgn=3"

\* urljoin(self.base_url, href): an absolute href is returned as is, an
\* empty href resolves to the base URL itself.
urljoin(base, href) == IF href = "" THEN base ELSE href

\* A fetched document: its listing nodes and the href of its
\* pagination__next anchor (None when the anchor is absent).
Doc(items, next) == [items |-> items, next |-> next]

\* Stores: for each page URL the document the server returns for it.
SiteChain3 ==
    [u \in {base_url, Page2, Page3} |->
        CASE u = base_url -> Doc(<<NodeNew1, NodeUsed2>>, Some(Page2))
          [] u = Page2 -> Doc(<<NodeUnknown12, NodeNoMarker, NodeNoLink>>, Some(Page3))
          [] u = Page3 -> Doc(<<NodeDeep3, NodeNew1b>>, None)]

SiteSingle ==
    [u \in {base_url} |-> Doc(<<NodeNew1, NodeUsed2>>, None)]

SiteDuplicate ==
    [u \in {base_url} |-> Doc(<<NodeNew1, NodeNew1b, NodeNoDigits>>, None)]

SiteEmptyFirst ==
    [u \in {base_url, Page2} |->
        CASE u = base_url -> Doc(<<NodeNoMarker, NodeNoLink, NodeEmptyHref>>, Some(Page2))
          [] u = Page2 -> Doc(<<NodeUsed2, NodeDeep3>>, None)]

SiteCycle ==
    [u \in {base_url, Page2} |->
        CASE u = base_url -> Doc(<<NodeNew1>>, Some(Page2))
          [] u = Page2 -> Doc(<<NodeUsed2>>, Some(base_url))]

SiteSelfLoop ==
    [u \in {base_url} |-> Doc(<<NodeUnknown12>>, Some(""))]

SitePartial ==
    [u \in {base_url} |->
        Doc(<<NodeNew1, NodeNoLink, NodeUsed2, NodeEmptyHref, NodeDeep3>>, None)]

Sites ==
    <<SiteChain3, SiteSingle, SiteDuplicate, SiteEmptyFirst, SiteCycle, SiteSelfLoop,
      SitePartial>>

\* Values of the condition_filter argument of crawl().
Filters ==
    {None, Some(<<>>), Some(CondNew), Some(<<"u", "s", "e", "d">>),
     Some(<<"U", "N", "K", "N", "O", "W", "N">>)}

\* Contents of data_dir when the crawl starts: empty, or left by an earlier
\* run (a record of item 1 with other content, a record of an item the store
\* no longer lists, and a file that is not a record).
OldRecord1 ==
    [title |-> <<"o", "l", "d", "e", "r">>, condition |-> CondUsed,
     price |-> <<"4">>, product_url |-> UrlItm1]
OldRecord9 ==
    [title |-> <<"z">>, condition |-> CondNew, price |-> <<"1">>,
     product_url |-> <<"/", "i", "t", "m", "/", "9">>]

DirEmpty == [f \in {} |-> <<>>]
DirPriorRun ==
    [f \in {FileName(<<"1">>), FileName(<<"9">>), <<"n", "o", "t", "e", "s">>} |->
        CASE f = FileName(<<"1">>) -> json_dumps(OldRecord1)
          [] f = FileName(<<"9">>) -> json_dumps(OldRecord9)
          [] OTHER -> <<"x">>]

InitialDirs == {DirEmpty, DirPriorRun}

\* ---------------------------------------------------------------- state
VARIABLES
    site,              \* index in Sites of the store being crawled
    condition_filter,  \* argument of crawl()
    files,             \* data_dir: file name -> content
    pc,                \* position of the crawl() coroutine
    url,               \* crawl(): url
    page_count,        \* crawl(): page_count
    item_count,        \* crawl(): item_count
    new_items,         \* crawl(): new_items, the count logged for the last page
    result,            \* value returned by crawl()
    soup,              \* process_page(): URL of the document parsed last
    parsed,            \* process_page(): parse_item's result for each node of soup
    tasks,             \* process_page(): the write_json_file tasks handed to gather
    warnings,          \* number of warning records logged
    fetchLog,          \* history: URLs passed to requests.get, in order
    fetchFailed,       \* history: some requests.get raised
    writeFailed,       \* history: some write_json_file raised
    crawlWritten       \* history: names of the files opened by write_json_file

vars ==
    <<site, condition_filter, files, pc, url, page_count, item_count, new_items, result,
      soup, parsed, tasks, warnings, fetchLog, fetchFailed, writeFailed,
      crawlWritten>>

Init ==
    /\ site \in DOMAIN Sites
    /\ condition_filter \in Filters
    /\ files \in InitialDirs
    /\ pc = "loop"
    /\ url = Some(base_url)
    /\ page_count = 0
    /\ item_count = 0
    /\ new_items = 0
    /\ result = None
    /\ soup = None
    /\ parsed = <<>>
    /\ tasks = <<>>
    /\ warnings = 0
    /\ fetchLog = <<>>
    /\ fetchFailed = FALSE
    /\ writeFailed = FALSE
    /\ crawlWritten = {}

\* ---------------------------------------------------------------- process_page helpers
\* Variant of BuildTasks: the key is the first run of digits anywhere in the
\* URL (the pattern without its '/itm/' marker).
RECURSIVE FirstDigitRun(_, _)
FirstDigitRun(u, p) ==
    IF p > Len(u) THEN <<>>
    ELSE IF u[p] \in Digits THEN DigitRun(u, p)
    ELSE FirstDigitRun(u, p + 1)

RECURSIVE BuildTasks_AnyDigits(_, _, _)
BuildTasks_AnyDigits(items, filter, i) ==
    IF i > Len(items) THEN <<>>
    ELSE LET item_data == parse_item(items[i], filter)
         IN (IF item_data.some
             THEN <<[item_id |-> FirstDigitRun(item_data.v.product_url, 1),
                     data |-> item_data.v, node |-> i,
                     status |-> "pending", old |-> None]>>
             ELSE <<>>) \o BuildTasks_AnyDigits(items, filter, i + 1)

\* The loop of lines 124-130: one task per node whose parse_item result and
\* item id are truthy, in node order.  node is the index of the task's node.
RECURSIVE BuildTasks(_, _, _)
BuildTasks(items, filter, i) ==
    IF i > Len(items) THEN <<>>
    ELSE LET item_data == parse_item(items[i], filter)
             item_id == IF item_data.some
                        THEN extract_item_id(item_data.v.product_url) ELSE None
         IN (IF item_data.some /\ Truthy(item_id)
             THEN <<[item_id |-> item_id.v, data |-> item_data.v, node |-> i,
                     status |-> "pending", old |-> None]>>
             ELSE <<>>) \o BuildTasks(items, filter, i + 1)

RECURSIVE CountWarnings(_, _, _)
CountWarnings(items, filter, i) ==
    IF i > Len(items) THEN 0
    ELSE parse_item_warnings(items[i], filter) + CountWarnings(items, filter, i + 1)

\* Variant of NextUrl: the pagination link is never followed.
NextUrl_Stop(doc) == None

\* Lines 137-138: the next URL of a parsed document.
NextUrl(doc) ==
    IF doc.next.some THEN Some(urljoin(base_url, doc.next.v)) ELSE None

\* Variant of CountJson: every directory entry is counted.
CountJson_All(dir) == Cardinality(DOMAIN dir)

\* Line 158: len([f for f in os.listdir(data_dir) if f.endswith('.json')])
CountJson(dir) == Cardinality({f \in DOMAIN dir : EndsWithJson(f)})

\* Variant of GatherDone: the tasks are started but not awaited.
GatherDone_NoWait == TRUE

\* "await asyncio.gather(*tasks)" returns: every task has finished normally.
GatherDone == \A i \in DOMAIN tasks : tasks[i].status = "done"

\* "await asyncio.gather(*tasks)" raises: some task has raised.
GatherRaised == \E i \in DOMAIN tasks : tasks[i].status = "failed"

\* Variant of EndIteration: the total is logged in place of the difference.
EndIteration_LogsTotal(next_url) ==
    /\ item_count' = CountJson(files)
    /\ new_items' = CountJson(files)
    /\ url' = next_url
    /\ page_count' = page_count + 1
    /\ pc' = "loop"

\* Variant of EndIteration: a URL already requested is not followed again.
EndIteration_StopOnRevisit(next_url) ==
    /\ item_count' = CountJson(files)
    /\ new_items' = CountJson(files) - item_count
    /\ url' = IF next_url.some /\ (\E k \in DOMAIN fetchLog : fetchLog[k] = next_url.v)
              THEN None ELSE next_url
    /\ page_count' = page_count + 1
    /\ pc' = "loop"

\* Variant of EndIteration: a page whose request failed is not counted.
EndIteration_NoCountOnFailure(next_url) ==
    /\ item_count' = CountJson(files)
    /\ new_items' = CountJson(files) - item_count
    /\ url' = next_url
    /\ page_count' = IF fetchFailed' THEN page_count ELSE page_count + 1
    /\ pc' = "loop"

\* Lines 158-165: the rest of a loop iteration once process_page has returned.
EndIteration(next_url) ==
    /\ item_count' = CountJson(files)
    /\ new_items' = CountJson(files) - item_count
    /\ url' = next_url
    /\ page_count' = page_count + 1
    /\ pc' = "loop"

\* ---------------------------------------------------------------- write_json_file
\* Variant of OpenForWrite: the file is opened without truncation.
OpenNoTruncate(dir, fn) ==
    [f \in DOMAIN dir \cup {fn} |-> IF f \in DOMAIN dir THEN dir[f] ELSE <<>>]

\* aiofiles.open(filename, 'w'): the file is created or truncated.
OpenForWrite(dir, fn) ==
    [f \in DOMAIN dir \cup {fn} |-> IF f = fn THEN <<>> ELSE dir[f]]

\* f.write(text) through a handle positioned at offset 0: the text replaces
\* the start of whatever the file holds by then.
WriteAtStart(content, text) ==
    text \o SubSeq(content, Len(text) + 1, Len(content))

Unfinished(i) == tasks[i].status \in {"pending", "opened"}

\* Line 64, the open succeeds.
WriteOpen(i) ==
    /\ tasks[i].status = "pending"
    /\ LET fn == FileName(tasks[i].item_id)
       IN /\ files' = OpenForWrite(files, fn)
          /\ tasks' = [tasks EXCEPT ![i].status = "opened",
                                    ![i].old = IF fn \in DOMAIN files
                                               THEN Some(files[fn]) ELSE None]
          /\ crawlWritten' = crawlWritten \cup {fn}
    /\ UNCHANGED <<site, condition_filter, pc, url, page_count, item_count, new_items,
                   result, soup, parsed, warnings, fetchLog, fetchFailed,
                   writeFailed>>

\* Line 64, the open raises OSError (no file is created or changed).
WriteOpenFail(i) ==
    /\ tasks[i].status = "pending"
    /\ tasks' = [tasks EXCEPT ![i].status = "failed"]
    /\ writeFailed' = TRUE
    /\ UNCHANGED <<site, condition_filter, files, pc, url, page_count,
                   item_count, new_items, result, soup, parsed, warnings, fetchLog,
                   fetchFailed, crawlWritten>>

\* Lines 65-66: the text is written and the file closed.
WriteData(i) ==
    /\ tasks[i].status = "opened"
    /\ LET fn == FileName(tasks[i].item_id)
       IN files' = [files EXCEPT ![fn] = WriteAtStart(files[fn], json_dumps(tasks[i].data))]
    /\ tasks' = [tasks EXCEPT ![i].status = "done"]
    /\ UNCHANGED <<site, condition_filter, pc, url, page_count, item_count, new_items,
                   result, soup, parsed, warnings, fetchLog, fetchFailed,
                   writeFailed, crawlWritten>>

\* Line 65, the write raises OSError: nothing reaches the opened file.
WriteDataFail(i) ==
    /\ tasks[i].status = "opened"
    /\ tasks' = [tasks EXCEPT ![i].status = "failed"]
    /\ writeFailed' = TRUE
    /\ UNCHANGED <<site, condition_filter, files, pc, url, page_count,
                   item_count, new_items, result, soup, parsed, warnings, fetchLog,
                   fetchFailed, crawlWritten>>

\* Once crawl() has raised, asyncio.run (line 187) cancels the tasks that
\* are still running; a cancelled task does nothing more.
Cancel(i) ==
    /\ pc = "crashed"
    /\ Unfinished(i)
    /\ tasks' = [tasks EXCEPT ![i].status = "cancelled"]
    /\ UNCHANGED <<site, condition_filter, files, pc, url, page_count,
                   item_count, new_items, result, soup, parsed, warnings, fetchLog,
                   fetchFailed, writeFailed, crawlWritten>>

\* ---------------------------------------------------------------- crawl / process_page
\* Lines 154-156 and 111-114: the loop test passes and the page is requested.
BeginFetch ==
    /\ pc = "loop"
    /\ url.some
    /\ page_count < MaxPages
    /\ pc' = "fetching"
    /\ fetchLog' = Append(fetchLog, url.v)
    /\ UNCHANGED <<site, condition_filter, files, url, page_count, item_count, new_items,
                   result, soup, parsed, tasks, warnings, fetchFailed,
                   writeFailed, crawlWritten>>

\* Variant of FailedPageResult: the failed URL is handed back for another try.
FailedPageResult_Retry(u) == Some(u)

\* What process_page returns when the request failed (line 118).
FailedPageResult(u) == None

\* Variant of FetchFail: a placeholder file is left for the failed page.
FetchFail_WritesMarker ==
    /\ pc = "fetching"
    /\ fetchFailed' = TRUE
    /\ files' = OpenForWrite(files, FileName(<<"0">>))
    /\ EndIteration(FailedPageResult(url.v))
    /\ UNCHANGED <<site, condition_filter, result, soup, parsed, tasks,
                   warnings, fetchLog, writeFailed, crawlWritten>>

\* Lines 116-118, then 158-165: the request raises RequestException.
FetchFail ==
    /\ pc = "fetching"
    /\ fetchFailed' = TRUE
    /\ EndIteration(FailedPageResult(url.v))
    /\ UNCHANGED <<site, condition_filter, files, result, soup, parsed, tasks,
                   warnings, fetchLog, writeFailed, crawlWritten>>

\* Variant of EmptyPageResult: a page without a valid record ends the crawl.
EmptyPageResult_Stop(doc) == None

\* Lines 132-145 when tasks is empty: gather is skipped and the next link is
\* resolved as for any other page.
EmptyPageResult(doc) == NextUrl(doc)

\* Lines 120-134: the request succeeds, the nodes are parsed and the writes
\* are handed to gather; with no task the iteration runs to its end.
FetchOk ==
    /\ pc = "fetching"
    /\ LET doc == Sites[site][url.v]
           new == BuildTasks(doc.items, condition_filter, 1)
       IN /\ soup' = Some(url.v)
          /\ parsed' = [i \in 1..Len(doc.items) |-> parse_item(doc.items[i], condition_filter)]
          /\ warnings' = warnings + CountWarnings(doc.items, condition_filter, 1)
          /\ tasks' = new
          /\ IF new = <<>>
             THEN EndIteration(EmptyPageResult(doc))
             ELSE /\ pc' = "persisting"
                  /\ UNCHANGED <<url, page_count, item_count, new_items>>
    /\ UNCHANGED <<site, condition_filter, files, result, fetchLog,
                   fetchFailed, writeFailed, crawlWritten>>

\* Lines 134-145, then 158-165: gather returns, the next link is resolved.
Join ==
    /\ pc = "persisting"
    /\ GatherDone
    /\ EndIteration(NextUrl(Sites[site][soup.v]))
    /\ UNCHANGED <<site, condition_filter, files, result, soup, parsed, tasks,
                   warnings, fetchLog, fetchFailed, writeFailed, crawlWritten>>

\* Line 134: gather re-raises the first exception of a task; nothing in
\* process_page or crawl catches it, so crawl() ends by raising.
GatherRaise ==
    /\ pc = "persisting"
    /\ GatherRaised
    /\ pc' = "crashed"
    /\ UNCHANGED <<site, condition_filter, files, url, page_count, item_count, new_items,
                   result, soup, parsed, tasks, warnings, fetchLog,
                   fetchFailed, writeFailed, crawlWritten>>

\* Lines 154 and 167-168: the loop test fails, crawl() returns its counts.
Finish ==
    /\ pc = "loop"
    /\ ~url.some
    /\ pc' = "done"
    /\ result' = Some(<<page_count, item_count>>)
    /\ UNCHANGED <<site, condition_filter, files, url, page_count, item_count, new_items,
                   soup, parsed, tasks, warnings, fetchLog, fetchFailed,
                   writeFailed, crawlWritten>>

Next ==
    \/ BeginFetch
    \/ FetchFail
    \/ FetchOk
    \/ Join
    \/ GatherRaise
    \/ Finish
    \/ \E i \in DOMAIN tasks : WriteOpen(i)
    \/ \E i \in DOMAIN tasks : WriteOpenFail(i)
    \/ \E i \in DOMAIN tasks : WriteData(i)
    \/ \E i \in DOMAIN tasks : WriteDataFail(i)
    \/ \E i \in DOMAIN tasks : Cancel(i)

Spec == Init /\ [][Next]_vars

\* The event loop runs every step that is ready and a request returns or
\* raises: no enabled step is postponed forever.
FairSpec == Spec /\ WF_vars(Next)

\* ---------------------------------------------------------------- properties
AnyFailure == fetchFailed \/ writeFailed

\* The pagination chain of a store, read off its documents: the page a
\* document links to, and the pages visited from the first one (at most
\* fuel of them).
LinkedPage(doc) ==
    IF ~doc.next.some THEN None
    ELSE IF doc.next.v = "" THEN Some(base_url)
    ELSE Some(doc.next.v)

RECURSIVE Walk(_, _, _)
Walk(store, u, fuel) ==
    IF fuel = 0 THEN <<>>
    ELSE <<u>> \o (IF LinkedPage(store[u]).some
                   THEN Walk(store, LinkedPage(store[u]).v, fuel - 1)
                   ELSE <<>>)

NumPages(store) == Cardinality(DOMAIN store)

\* A chain is acyclic when the walk ends before it could repeat a page.
Acyclic(store) == Len(Walk(store, base_url, NumPages(store) + 1)) <= NumPages(store)

Chain(store) == Walk(store, base_url, NumPages(store))

\* C1: on an acyclic chain of n pages where every fetch and every write
\* succeeds, crawl() eventually returns, with pages_processed = n and the
\* pages fetched once each in chain order.
C1_Termination ==
    /\ <>(~Acyclic(Sites[site]) \/ AnyFailure \/ pc = "done")
    /\ [](pc = "done" /\ ~AnyFailure /\ Acyclic(Sites[site])
            => /\ result.some
               /\ result.v[1] = Len(Chain(Sites[site]))
               /\ fetchLog = Chain(Sites[site]))

C1_Witness ==
    /\ pc = "done"
    /\ ~AnyFailure
    /\ result.some
    /\ result.v[1] = 3
    /\ Len(fetchLog) = 3

\* C2: once a fetch has failed no further fetch is issued (no retry, no
\* later page) and the loop is over: url is None and crawl() is at its loop
\* test or has returned.
C2_FetchFailureStops ==
    /\ [](fetchFailed => ~url.some /\ pc \in {"loop", "done"})
    /\ [][fetchFailed => fetchLog' = fetchLog]_vars

C2_Witness ==
    /\ fetchFailed
    /\ pc = "done"
    /\ Len(fetchLog) = 2
    /\ Len(Chain(Sites[site])) = 3

\* C3 (as stated): a failed write never aborts the crawl.
C3_WriteFailureDoesNotAbort == writeFailed => pc # "crashed"

\* C4: while a page is being fetched no write of an earlier page is in
\* flight, and a fetch is issued only after every earlier iteration ended.
C4_JoinBarrier ==
    /\ pc = "fetching" => \A i \in DOMAIN tasks : ~Unfinished(i)
    /\ pc = "loop" /\ url.some => \A i \in DOMAIN tasks : ~Unfinished(i)
    /\ Len(fetchLog) <= page_count + 1
    /\ pc = "fetching" => Len(fetchLog) = page_count + 1

C4_Witness ==
    /\ pc = "fetching"
    /\ Len(fetchLog) = 2
    /\ Len(tasks) >= 2
    /\ \A i \in DOMAIN tasks : tasks[i].status = "done"

\* The listing nodes of a store and the record each one with a link stands for.
StoreNodes(store) ==
    UNION {{store[u].items[i] : i \in DOMAIN store[u].items} : u \in DOMAIN store}

RecordOf(node) ==
    [title |-> TitleOf(node), condition |-> ConditionOf(node),
     price |-> PriceOf(node), product_url |-> node.link.v]

\* The complete documents a file of this store can hold: a record of one of
\* its listings, or one left by the earlier run.
CompleteDocs ==
    {json_dumps(RecordOf(n)) : n \in {m \in StoreNodes(Sites[site]) : m.link.some}}
        \cup {json_dumps(OldRecord1), json_dumps(OldRecord9)}

\* C5 (as stated): whenever no write is running, also after one was
\* interrupted between its open and the end of its write, every file a
\* write touched holds a complete record, never an empty or partial one.
C5_WholeRecordAtomic ==
    (\A i \in DOMAIN tasks : ~Unfinished(i))
        => \A f \in crawlWritten : files[f] \in CompleteDocs

\* C6 (as stated): the write tasks handed to gather for one page carry
\* pairwise distinct item ids.
C6_DistinctKeys ==
    \A i, j \in DOMAIN tasks : i # j => tasks[i].item_id # tasks[j].item_id

\* Task i is the only write of its page to its file.
SoleWriter(i) ==
    \A j \in DOMAIN tasks : j # i => tasks[j].item_id # tasks[i].item_id

\* C7: a write that follows an earlier write of the same item id leaves the
\* file holding exactly the later content; the open adds at most the file
\* of that id to the directory and the write adds none.
C7_LastWriterWins ==
    /\ [](\A i \in DOMAIN tasks :
            tasks[i].status = "done" /\ SoleWriter(i)
                => /\ FileName(tasks[i].item_id) \in DOMAIN files
                   /\ files[FileName(tasks[i].item_id)] = json_dumps(tasks[i].data))
    /\ [][\A i \in DOMAIN tasks \cap DOMAIN tasks' :
            /\ tasks[i].status = "pending" /\ tasks'[i].status = "opened"
                 => DOMAIN files' = DOMAIN files \cup {FileName(tasks[i].item_id)}
            /\ tasks[i].status = "opened" /\ tasks'[i].status = "done"
                 => DOMAIN files' = DOMAIN files]_vars

C7_Witness ==
    \E i \in DOMAIN tasks :
        /\ tasks[i].status = "done"
        /\ SoleWriter(i)
        /\ tasks[i].old.some
        /\ tasks[i].old.v \in CompleteDocs \ {json_dumps(tasks[i].data)}
        /\ Len(tasks[i].old.v) > Len(json_dumps(tasks[i].data))
        /\ files[FileName(tasks[i].item_id)] = json_dumps(tasks[i].data)

\* "R.condition equals F ignoring case", stated letter by letter.
CasePairs ==
    {<<"N", "n">>, <<"E", "e">>, <<"W", "w">>, <<"U", "u">>, <<"S", "s">>,
     <<"D", "d">>, <<"K", "k">>, <<"O", "o">>}

SameLetter(a, b) == a = b \/ <<a, b>> \in CasePairs \/ <<b, a>> \in CasePairs

EqIgnoreCase(a, b) ==
    Len(a) = Len(b) /\ \A i \in 1..Len(a) : SameLetter(a[i], b[i])

\* A filter is unset when crawl() got None or the empty string for it.
FilterUnset(F) == ~F.some \/ F.v = <<>>

MatchesFilter(node, F) == FilterUnset(F) \/ EqIgnoreCase(ConditionOf(node), F.v)

\* A listing with a resolvable product URL and identifier.
Resolvable(node) ==
    node.link.some /\ node.link.v # <<>> /\ extract_item_id(node.link.v).some

PassesExtraction(node, F) == Resolvable(node) /\ MatchesFilter(node, F)

ChainNodes(store) ==
    UNION {{store[Chain(store)[k]].items[i] : i \in DOMAIN store[Chain(store)[k]].items} :
              k \in DOMAIN Chain(store)}

PassingFiles(store, F) ==
    {FileName(extract_item_id(n.link.v).v) :
        n \in {m \in ChainNodes(store) : PassesExtraction(m, F)}}

\* C8: when crawl() has returned after a run without failure, the files
\* the crawl wrote are exactly the files of the item ids of the listings,
\* on any page of the chain, that pass extraction, and each is present.
C8_NoLossNoDuplicate ==
    pc = "done" /\ ~AnyFailure
        => /\ crawlWritten = PassingFiles(Sites[site], condition_filter)
           /\ crawlWritten \subseteq DOMAIN files

C8_Witness ==
    /\ pc = "done"
    /\ ~AnyFailure
    /\ Len(fetchLog) = 3
    /\ crawlWritten # {}
    /\ \E n \in ChainNodes(Sites[site]) :
          /\ Resolvable(n)
          /\ ~MatchesFilter(n, condition_filter)
          /\ FileName(extract_item_id(n.link.v).v) \notin crawlWritten
    /\ \E n \in ChainNodes(Sites[site]) : ~Resolvable(n)

\* C9: a listing with a resolvable URL and identifier is in parse_item's
\* output iff the filter is unset or its condition equals the filter
\* ignoring case; the condition of a listing without one is "Unknown".
C9_FilterCorrect ==
    \A i \in DOMAIN parsed :
        LET node == Sites[site][soup.v].items[i]
        IN /\ Resolvable(node)
                => (parsed[i].some <=> MatchesFilter(node, condition_filter))
           /\ parsed[i].some /\ ~node.cond.some
                => parsed[i].v.condition = <<"U", "n", "k", "n", "o", "w", "n">>
           /\ parsed[i].some /\ node.cond.some
                => parsed[i].v.condition = Strip(node.cond.v)

C9_Witness ==
    /\ condition_filter.some
    /\ condition_filter.v # <<>>
    /\ \E i \in DOMAIN parsed :
          parsed[i].some /\ parsed[i].v.condition # condition_filter.v
    /\ \E i \in DOMAIN parsed :
          Resolvable(Sites[site][soup.v].items[i]) /\ ~parsed[i].some

\* C10: every write task is keyed by the id extract_item_id derives from
\* its own listing's product URL, every record found in a file the crawl
\* wrote sits under the id of its own product URL, and no listing whose
\* URL lacks the numeric segment is written.
C10_KeyedByOwnUrl ==
    /\ \A i \in DOMAIN tasks :
          LET node == Sites[site][soup.v].items[tasks[i].node]
          IN /\ node.link.some
             /\ tasks[i].data.product_url = node.link.v
             /\ extract_item_id(node.link.v) = Some(tasks[i].item_id)
    /\ \A f \in crawlWritten :
          \A n \in {m \in StoreNodes(Sites[site]) : m.link.some} :
              files[f] = json_dumps(RecordOf(n))
                  => /\ extract_item_id(n.link.v).some
                     /\ f = FileName(extract_item_id(n.link.v).v)

C10_Witness ==
    /\ warnings >= 1
    /\ \E f \in crawlWritten : files[f] = json_dumps(RecordOf(NodeDeep3))
    /\ \E n \in ChainNodes(Sites[site]) :
          n.link.some /\ n.link.v # <<>> /\ ~extract_item_id(n.link.v).some

\* The document of the only page of a single-page store.
OnlyPage == Sites[site][base_url]

LacksUrl(node) == ~node.link.some \/ node.link.v = <<>>

\* A page whose listings either lack a product URL or are valid, the valid
\* ones with pairwise distinct identifiers.
PartialPageShape(doc) ==
    /\ \A i \in DOMAIN doc.items : LacksUrl(doc.items[i]) \/ Resolvable(doc.items[i])
    /\ \A i, j \in DOMAIN doc.items :
          i # j /\ Resolvable(doc.items[i]) /\ Resolvable(doc.items[j])
              => extract_item_id(doc.items[i].link.v) # extract_item_id(doc.items[j].link.v)

NumLackingUrl(doc) == Cardinality({i \in DOMAIN doc.items : LacksUrl(doc.items[i])})

\* C11 (as stated): on a page of n listings of which k lack a product URL
\* (the others valid, distinct, no filter) n - k records are written and k
\* warnings are logged.
C11_PartialPage ==
    /\ pc = "done"
    /\ ~AnyFailure
    /\ NumPages(Sites[site]) = 1
    /\ ~LinkedPage(OnlyPage).some
    /\ FilterUnset(condition_filter)
    /\ PartialPageShape(OnlyPage)
    => /\ Cardinality(crawlWritten) = Len(OnlyPage.items) - NumLackingUrl(OnlyPage)
       /\ warnings = NumLackingUrl(OnlyPage)

\* The fields of a ListingRecord.
RecordFields == {"item_id", "title", "condition", "price", "product_url"}

FieldsIn(content) == {content[k] : k \in DOMAIN content} \cap RecordFields

\* C12 (as stated): the file a finished write leaves holds all five fields
\* of a ListingRecord.
C12_FiveFields ==
    \A i \in DOMAIN tasks :
        tasks[i].status = "done" /\ SoleWriter(i)
            => FieldsIn(files[FileName(tasks[i].item_id)]) = RecordFields

\* C13: a fetched page without a valid record is followed by its next link
\* like any other page and is no error; when no request or write failed
\* the crawl returns only after a page without a next link.
C13_EmptyPageAdvances ==
    /\ pc = "loop" /\ soup.some /\ ~AnyFailure
          => url = LinkedPage(Sites[site][soup.v])
    /\ pc = "done" /\ ~AnyFailure
          => soup.some /\ ~LinkedPage(Sites[site][soup.v]).some
    /\ soup.some /\ tasks = <<>> => pc # "crashed"

C13_Witness ==
    /\ pc = "fetching"
    /\ ~AnyFailure
    /\ Len(fetchLog) = 2
    /\ soup = Some(base_url)
    /\ parsed # <<>>
    /\ \A i \in DOMAIN parsed : ~parsed[i].some
    /\ tasks = <<>>
    /\ url = Some(Page2)

\* The record files of a directory.
RecordFiles(dir) == {f \in DOMAIN dir : EndsWithJson(f)}

\* C14: at the end of each iteration item_count is the number of record
\* files then in the directory, files of earlier runs included, and the
\* count logged for the page is the difference from the previous count;
\* crawl() returns the count of the last iteration.
C14_Accounting ==
    /\ [][page_count' = page_count + 1
            => /\ item_count' = Cardinality(RecordFiles(files'))
               /\ new_items' = item_count' - item_count]_vars
    /\ [](pc = "loop" /\ page_count > 0 => item_count = Cardinality(RecordFiles(files)))
    /\ [](pc = "done"
            => /\ result.some
               /\ result.v[2] = item_count
               /\ result.v[2] = Cardinality(RecordFiles(files)))

C14_Witness ==
    /\ pc = "done"
    /\ ~AnyFailure
    /\ Len(fetchLog) = 3
    /\ FileName(<<"9">>) \in DOMAIN files \ crawlWritten
    /\ RecordFiles(files) # DOMAIN files
    /\ result.v[2] = Cardinality(crawlWritten) + 1
    /\ new_items >= 1

\* The listings of the only page that match the filter, when they are all
\* valid and carry pairwise distinct identifiers.
Matching(doc, F) == {i \in DOMAIN doc.items : MatchesFilter(doc.items[i], F)}

EndToEndShape ==
    /\ NumPages(Sites[site]) = 1
    /\ ~LinkedPage(OnlyPage).some
    /\ \A i \in Matching(OnlyPage, condition_filter) : Resolvable(OnlyPage.items[i])
    /\ \A i, j \in Matching(OnlyPage, condition_filter) :
          i # j => extract_item_id(OnlyPage.items[i].link.v)
                      # extract_item_id(OnlyPage.items[j].link.v)

\* C15 (as stated): on a single-page store with k matching listings a crawl
\* whose fetch and writes succeed writes k files and returns (1, k).
C15_EndToEnd ==
    pc = "done" /\ ~AnyFailure /\ EndToEndShape
        => /\ Cardinality(crawlWritten) = Cardinality(Matching(OnlyPage, condition_filter))
           /\ result = Some(<<1, Cardinality(Matching(OnlyPage, condition_filter))>>)

\* C15 (amended): such a crawl writes k files and returns pages_processed
\* = 1 and items_persisted = k plus the number of record files the
\* directory already held under other names.
C15_EndToEndAmended ==
    pc = "done" /\ ~AnyFailure /\ EndToEndShape
        => /\ Cardinality(crawlWritten) = Cardinality(Matching(OnlyPage, condition_filter))
           /\ result = Some(<<1, Cardinality(Matching(OnlyPage, condition_filter))
                                   + Cardinality(RecordFiles(files) \ crawlWritten)>>)

C15_Witness ==
    /\ pc = "done"
    /\ ~AnyFailure
    /\ EndToEndShape
    /\ Len(OnlyPage.items) = 2
    /\ Cardinality(Matching(OnlyPage, condition_filter)) = 1
    /\ DOMAIN files = crawlWritten
    /\ result = Some(<<1, 1>>)

\* The price text as the claim words it: the text before the first " to ",
\* without the characters that are neither a digit nor a dot.
SepPositions(s) ==
    {i \in 1..Len(s) :
        /\ i + 3 <= Len(s)
        /\ s[i] = " " /\ s[i + 1] = "t" /\ s[i + 2] = "o" /\ s[i + 3] = " "}

BeforeSeparator(s) ==
    IF SepPositions(s) = {} THEN s
    ELSE SubSeq(s, 1, (CHOOSE i \in SepPositions(s) : \A j \in SepPositions(s) : i <= j) - 1)

IsPriceChar(c) == c \in Digits \cup {"."}

ExpectedPrice(node) ==
    IF node.price.some
    THEN SelectSeq(BeforeSeparator(Strip(node.price.v)), IsPriceChar)
    ELSE <<"0", ".", "0", "0">>

NumDots(s) == Cardinality({i \in DOMAIN s : s[i] = "."})

\* C16 (as stated): the price of an extracted record is that text, made of
\* digits and a single decimal point.
C16_PriceNormal ==
    \A i \in DOMAIN parsed :
        parsed[i].some
            => /\ parsed[i].v.price = ExpectedPrice(Sites[site][soup.v].items[i])
               /\ NumDots(parsed[i].v.price) <= 1

\* C16 (amended): the price of an extracted record is that text; it holds
\* digits and dots only, with as many dots as the text before the separator.
C16_PriceDigitsAndDots ==
    \A i \in DOMAIN parsed :
        parsed[i].some
            => /\ parsed[i].v.price = ExpectedPrice(Sites[site][soup.v].items[i])
               /\ \A k \in DOMAIN parsed[i].v.price : IsPriceChar(parsed[i].v.price[k])
               /\ ~Sites[site][soup.v].items[i].price.some
                     => parsed[i].v.price = <<"0", ".", "0", "0">>

C16_Witness ==
    /\ \E i \in DOMAIN parsed :
          /\ parsed[i].some
          /\ SepPositions(Sites[site][soup.v].items[i].price.v) # {}
          /\ parsed[i].v.price = <<"1">>
    /\ \E i \in DOMAIN parsed :
          /\ parsed[i].some
          /\ Sites[site][soup.v].items[i].price = Some(<<"$", "1", ",", "0">>)
          /\ parsed[i].v.price = <<"1", "0">>

\* C17: on a cyclic chain without failure crawl() never returns; it goes
\* on requesting the pages of the cycle and page_count reaches any bound.
C17_CycleNeverDone ==
    /\ [](~Acyclic(Sites[site]) /\ ~AnyFailure
            => /\ pc # "done"
               /\ fetchLog = Walk(Sites[site], base_url, Len(fetchLog)))
    /\ <>(Acyclic(Sites[site]) \/ AnyFailure \/ page_count = MaxPages)

C17_Witness ==
    /\ ~Acyclic(Sites[site])
    /\ ~AnyFailure
    /\ page_count = MaxPages
    /\ NumPages(Sites[site]) = 2
    /\ \E j, k \in DOMAIN fetchLog : j < k /\ fetchLog[j] = fetchLog[k]

\* A listing whose product URL is present but carries no identifier.
BadUrl(node) ==
    node.link.some /\ node.link.v # <<>> /\ ~extract_item_id(node.link.v).some

\* The step in which the requested page arrives and is parsed.
PageParsed == pc = "fetching" /\ ~fetchFailed'

\* C18 (as stated): every listing with such a URL is dropped with a
\* warning, whether or not a filter is set.
C18_BadUrlAlwaysWarns ==
    [][PageParsed
        => LET items == Sites[site][url.v].items
           IN /\ warnings' - warnings
                    = Cardinality({i \in DOMAIN items : BadUrl(items[i])})
              /\ \A i \in DOMAIN items : BadUrl(items[i]) => ~parsed'[i].some]_vars

\* C18 (amended): every listing with such a URL is dropped; a warning is
\* logged for it unless a filter is set that its condition does not match;
\* the page and the crawl go on with the other listings.
C18_BadUrlWarnsUnlessFiltered ==
    [][PageParsed
        => LET items == Sites[site][url.v].items
           IN /\ warnings' - warnings
                    = Cardinality({i \in DOMAIN items :
                          BadUrl(items[i]) /\ MatchesFilter(items[i], condition_filter)})
              /\ \A i \in DOMAIN items : BadUrl(items[i]) => ~parsed'[i].some
              /\ Len(tasks')
                    = Cardinality({i \in DOMAIN items :
                          PassesExtraction(items[i], condition_filter)})
              /\ pc' \in {"persisting", "loop"}]_vars

C18_Witness ==
    /\ condition_filter.some
    /\ condition_filter.v # <<>>
    /\ soup.some
    /\ warnings = 1
    /\ pc # "crashed"
    /\ \E i \in DOMAIN parsed :
          /\ BadUrl(Sites[site][soup.v].items[i])
          /\ MatchesFilter(Sites[site][soup.v].items[i], condition_filter)
          /\ ~parsed[i].some

\* C19: pages_processed counts the requests made, failed ones included; a
\* crawl whose request failed still returns its counts.
C19_PagesCountAttempts ==
    /\ [](pc \in {"loop", "done"} => page_count = Len(fetchLog))
    /\ [](pc = "done" => result.some /\ result.v[1] = Len(fetchLog))
    /\ [](fetchFailed => <>(pc = "done" /\ result.some))

C19_Witness ==
    /\ pc = "done"
    /\ fetchFailed
    /\ fetchLog = <<base_url>>
    /\ result.some
    /\ result.v[1] = 1

\* C20: the iteration of a page whose request fails (the request and its
\* failure) starts no write and leaves the directory as it was.
C20_FailedFetchFrame ==
    /\ [][(pc = "loop" /\ pc' = "fetching") \/ (pc = "fetching" /\ fetchFailed')
            => /\ files' = files
               /\ tasks' = tasks
               /\ crawlWritten' = crawlWritten]_vars
    /\ [](pc = "fetching" => \A i \in DOMAIN tasks : tasks[i].status = "done")

C20_Witness ==
    /\ fetchFailed
    /\ pc = "loop"
    /\ Len(fetchLog) = 2
    /\ crawlWritten # {}
    /\ DOMAIN files # crawlWritten

====
